---- MODULE Spec2Model ----
(***************************************************************************)
(* Telemeister: the conversational state-machine engine.                   *)
(*                                                                         *)
(*   - the handler registry and its fluent builders (core/builder.ts),     *)
(*   - the message-handling cycle of the runtime variants:                 *)
(*       "xstate"        handleUserMessage / processUpdate                 *)
(*       "grammy_core"   core/bot polling + webhook (createBot)            *)
(*       "grammy_legacy" bot/polling + bot/webhook (createBot)             *)
(*   - the durable user record behind updateUserState.                     *)
(***************************************************************************)
EXTENDS Integers, Sequences, FiniteSets, TLC

(***************************************************************************)
(* Bounded universes                                                       *)
(***************************************************************************)
\* state identifiers are opaque strings; "idle" is the default state
States == {"idle", "welcome", "menu"}
\* undefined / void
None == "none"
\* keys and values handlers put into the state data
KeySeq == <<"name">>
Keys == {KeySeq[i] : i \in 1..Len(KeySeq)}
Vals == {"ann", "bob"}
\* identities (telegram ids) and the runtime variants
Identities == {"x", "y"}
\* the identity the serial runs are driven with
SerialIdentities == {"x"}
Runtimes == {"xstate", "grammy_core", "grammy_legacy"}
\* processUpdate of bot/webhook: the steps of handleUserMessage on a context
\* whose send goes through sendMessage
SendRuntimes == Runtimes \cup {"xstate_webhook"}
\* longest chain of onEnter calls the model follows in one transition chain
MaxChain == 5

(***************************************************************************)
(* Handlers.  An onEnter handler is identified by the state it returns;    *)
(* what it writes with setData and whether it throws is chosen when it is  *)
(* invoked.  An onResponse handler's result depends on the message text,   *)
(* so its result is chosen when it is invoked too.  The handlers await      *)
(* context.send(...); `sendFailed` marks the invocations in which that     *)
(* outbound send failed.                                                   *)
(***************************************************************************)
\* no handler in a slot (undefined)
NoHandler == [kind |-> "none"]
EnterHandlers == [kind : {"enter"}, ret : States \cup {None}]
ResponseHandlers == [kind : {"response"}, id : {"r1", "r2"}]
EnterRet(h) == h.ret
\* the onEnter handler that returns r
EH(r) == [kind |-> "enter", ret |-> r]

\* StateHandlers: { onEnter?, onResponse? }
StateHandlers == [onEnter : EnterHandlers \cup {NoHandler},
                  onResponse : ResponseHandlers \cup {NoHandler}]
EmptyHandlers == [onEnter |-> NoHandler, onResponse |-> NoHandler]

\* in-memory state data: every key is bound to a value or absent (None)
DataStores == [Keys -> Vals \cup {None}]
EmptyData == [k \in Keys |-> None]
\* what one handler invocation does to the store: nothing, or setData(k, v)
NoOp == <<>>
DataOps == {NoOp} \cup (Keys \X Vals)
ApplyOp(d, op) == IF op = NoOp THEN d ELSE [d EXCEPT ![op[1]] = op[2]]

VARIABLES
  handlers,     \* BotBuilder.handlers: Map<state, StateHandlers>
  lastReg,      \* per (state, kind): the handler of the latest registration
  lastRegCall,  \* the latest registration call: its kind, its scope and the
                \* handlers it found in the slots of its scope
  lastCall,     \* the latest executeOnEnter / executeOnResponse API call
  ctxData,      \* state data of the context handed to the API calls
  runtime,      \* the runtime variant this deployment runs
  users,        \* durable user records, by identity
  cyc,          \* the message-handling cycle in flight, per update slot
  actor         \* an XState actor run on its own: compactMachine or botMachine

builderVars == <<handlers, lastReg, lastRegCall, lastCall, ctxData>>
runtimeVars == <<runtime, users, cyc>>
vars == <<handlers, lastReg, lastRegCall, lastCall, ctxData, runtime, users, cyc, actor>>

(***************************************************************************)
(* Handler registry and builders (core/builder.ts)                         *)
(***************************************************************************)
\* this.handlers.get(state) || {}
GetOrEmpty(reg, s) == IF s \in DOMAIN reg THEN reg[s] ELSE EmptyHandlers

\* a Map.set that drops every other key
MapSet_Only(reg, s, v) == [t \in {s} |-> v]

\* this.handlers.set(state, existing)
MapSet(reg, s, v) == [t \in (DOMAIN reg) \cup {s} |-> IF t = s THEN v ELSE reg[t]]

\* a registration that keeps a handler already in the slot
SetOnEnter_KeepFirst(reg, s, h) ==
  IF GetOrEmpty(reg, s).onEnter # NoHandler THEN reg
  ELSE MapSet(reg, s, [GetOrEmpty(reg, s) EXCEPT !.onEnter = h])

\* existing.onEnter = handler; this.handlers.set(state, existing)
SetOnEnter(reg, s, h) == MapSet(reg, s, [GetOrEmpty(reg, s) EXCEPT !.onEnter = h])

\* a registration that starts from a fresh entry instead of the existing one
SetOnResponse_Clobber(reg, s, h) ==
  MapSet(reg, s, [EmptyHandlers EXCEPT !.onResponse = h])

\* existing.onResponse = handler; this.handlers.set(state, existing)
SetOnResponse(reg, s, h) == MapSet(reg, s, [GetOrEmpty(reg, s) EXCEPT !.onResponse = h])

\* a list registration that stops after the first state of the list
MultiSetOnEnter_FirstOnly(reg, ss, h) ==
  IF ss = <<>> THEN reg ELSE SetOnEnter(reg, Head(ss), h)

\* for (const state of this.states) { ... existing.onEnter = handler ... }
RECURSIVE MultiSetOnEnter(_, _, _)
MultiSetOnEnter(reg, ss, h) ==
  IF ss = <<>> THEN reg
  ELSE MultiSetOnEnter(SetOnEnter(reg, Head(ss), h), Tail(ss), h)

RECURSIVE MultiSetOnResponse(_, _, _)
MultiSetOnResponse(reg, ss, h) ==
  IF ss = <<>> THEN reg
  ELSE MultiSetOnResponse(SetOnResponse(reg, Head(ss), h), Tail(ss), h)

\* handlers?.onEnter of this.handlers.get(state)
LookupOnEnter(reg, s) == IF s \in DOMAIN reg THEN reg[s].onEnter ELSE NoHandler
LookupOnResponse(reg, s) == IF s \in DOMAIN reg THEN reg[s].onResponse ELSE NoHandler

\* hasOnEnter / hasOnResponse / getRegisteredStates
hasOnEnter(reg, s) == LookupOnEnter(reg, s) # NoHandler
hasOnResponse(reg, s) == LookupOnResponse(reg, s) # NoHandler
getRegisteredStates(reg) == DOMAIN reg

\* What one execute call can do.  The handler (if any) is invoked once: it
\* returns its result after an optional setData, or throws; `result` is what the
\* handler returned, `ret` what the execute call returns (return handlers.onEnter(
\* context)), `trans` the argument of a context.transition(...) the handler made.
Outcome(h, r, d, op, t) ==
  [handler |-> h, calls |-> IF h = NoHandler THEN 0 ELSE 1,
   result |-> r, ret |-> r, trans |-> None,
   data |-> ApplyOp(d, op), op |-> op, threw |-> t, sendFailed |-> FALSE]

\* an executeOnEnter that answers with the state itself when it has no handler
executeOnEnter_ReturnsState(reg, s, d) ==
  LET h == LookupOnEnter(reg, s) IN
  IF h = NoHandler THEN {Outcome(NoHandler, s, d, NoOp, FALSE)}
  ELSE {Outcome(h, EnterRet(h), d, op, FALSE) : op \in DataOps}
       \cup {Outcome(h, None, d, NoOp, TRUE)}

\* executeOnEnter(state, context): the outcomes of the call on a context whose
\* state data is d.  Without a handler the call returns nothing.
executeOnEnter(reg, s, d) ==
  LET h == LookupOnEnter(reg, s) IN
  IF h = NoHandler THEN {Outcome(NoHandler, None, d, NoOp, FALSE)}
  ELSE {Outcome(h, EnterRet(h), d, op, FALSE) : op \in DataOps}
       \cup {Outcome(h, None, d, NoOp, TRUE)}

\* an executeOnResponse that drops a result naming the state it was called for
executeOnResponse_FiltersSame(reg, s, d) ==
  LET h == LookupOnResponse(reg, s) IN
  IF h = NoHandler THEN {Outcome(NoHandler, None, d, NoOp, FALSE)}
  ELSE {[Outcome(h, r, d, op, FALSE) EXCEPT !.ret = IF r = s THEN None ELSE r]
          : r \in States \cup {None}, op \in DataOps}
       \cup {Outcome(h, None, d, NoOp, TRUE)}

\* the handlers that call context.transition(...) before they return
CallsTransition(h) == h.id = "r2"

\* executeOnResponse(state, context, response).  What the handler returns
\* depends on the message text: every result is possible.
executeOnResponse(reg, s, d) ==
  LET h == LookupOnResponse(reg, s) IN
  IF h = NoHandler THEN {Outcome(NoHandler, None, d, NoOp, FALSE)}
  ELSE {Outcome(h, r, d, op, FALSE) : r \in States \cup {None}, op \in DataOps}
       \cup (IF CallsTransition(h)
              THEN {[Outcome(h, r, d, op, FALSE) EXCEPT !.trans = t]
                      : r \in States \cup {None}, op \in DataOps, t \in States}
              ELSE {})
       \cup {Outcome(h, None, d, NoOp, TRUE)}


(***************************************************************************)
(* Builder API: registration and direct execute calls                      *)
(***************************************************************************)
\* longest state list handed to forState([...])
MaxList == 2
\* the states the registration calls are exercised with
RegStates == {"idle", "menu"}
StateLists == UNION {[1..n -> RegStates] : n \in 1..MaxList}
\* the handler functions the registration calls are exercised with
SomeEnterHandlers == {h \in EnterHandlers : h.ret \in {None, "menu"}}

NoCall == [op |-> None, state |-> None, handler |-> NoHandler, calls |-> 0,
           result |-> None, ret |-> None, threw |-> FALSE]
Call(op, s, o) == [op |-> op, state |-> s, handler |-> o.handler, calls |-> o.calls,
                   result |-> o.result, ret |-> o.ret, threw |-> o.threw]

NoRegCall == [kind |-> None, scope |-> {}, prev |-> [s \in States |-> NoHandler]]
Range(ss) == {ss[i] : i \in 1..Len(ss)}
\* the registration call being made: what it is about to replace
RegCall(kind, ss) ==
  [kind |-> kind, scope |-> Range(ss),
   prev |-> [s \in States |->
               IF s \notin Range(ss) THEN NoHandler
               ELSE IF kind = "onEnter" THEN LookupOnEnter(handlers, s)
               ELSE LookupOnResponse(handlers, s)]]

RECURSIVE NoteRegs(_, _, _, _)
NoteRegs(lr, ss, kind, h) ==
  IF ss = <<>> THEN lr
  ELSE NoteRegs([lr EXCEPT ![Head(ss)][kind] = h], Tail(ss), kind, h)

\* botBuilder.forState(s).onEnter(h)
StateBuilder_onEnter(s, h) ==
  /\ handlers' = SetOnEnter(handlers, s, h)
  /\ lastReg' = NoteRegs(lastReg, <<s>>, "onEnter", h)
  /\ lastRegCall' = RegCall("onEnter", <<s>>)
  /\ lastCall' = NoCall
  /\ UNCHANGED <<ctxData, runtimeVars, actor>>

\* botBuilder.forState(s).onResponse(h)
StateBuilder_onResponse(s, h) ==
  /\ handlers' = SetOnResponse(handlers, s, h)
  /\ lastReg' = NoteRegs(lastReg, <<s>>, "onResponse", h)
  /\ lastRegCall' = RegCall("onResponse", <<s>>)
  /\ lastCall' = NoCall
  /\ UNCHANGED <<ctxData, runtimeVars, actor>>

\* botBuilder.forState([s1, ..., sn]).onEnter(h)
MultiStateBuilder_onEnter(ss, h) ==
  /\ handlers' = MultiSetOnEnter(handlers, ss, h)
  /\ lastReg' = NoteRegs(lastReg, ss, "onEnter", h)
  /\ lastRegCall' = RegCall("onEnter", ss)
  /\ lastCall' = NoCall
  /\ UNCHANGED <<ctxData, runtimeVars, actor>>

\* botBuilder.forState([s1, ..., sn]).onResponse(h)
MultiStateBuilder_onResponse(ss, h) ==
  /\ handlers' = MultiSetOnResponse(handlers, ss, h)
  /\ lastReg' = NoteRegs(lastReg, ss, "onResponse", h)
  /\ lastRegCall' = RegCall("onResponse", ss)
  /\ lastCall' = NoCall
  /\ UNCHANGED <<ctxData, runtimeVars, actor>>

\* botBuilder.onEnter(s, h)
BotBuilder_onEnter(s, h) ==
  /\ handlers' = SetOnEnter(handlers, s, h)
  /\ lastReg' = NoteRegs(lastReg, <<s>>, "onEnter", h)
  /\ lastRegCall' = RegCall("onEnter", <<s>>)
  /\ lastCall' = NoCall
  /\ UNCHANGED <<ctxData, runtimeVars, actor>>

\* botBuilder.onResponse(s, h)
BotBuilder_onResponse(s, h) ==
  /\ handlers' = SetOnResponse(handlers, s, h)
  /\ lastReg' = NoteRegs(lastReg, <<s>>, "onResponse", h)
  /\ lastRegCall' = RegCall("onResponse", <<s>>)
  /\ lastCall' = NoCall
  /\ UNCHANGED <<ctxData, runtimeVars, actor>>

\* botBuilder.executeOnEnter(s, context)
Call_executeOnEnter(s) ==
  \E o \in executeOnEnter(handlers, s, ctxData) :
    /\ lastCall' = Call("onEnter", s, o)
    /\ ctxData' = o.data
    /\ UNCHANGED <<handlers, lastReg, lastRegCall, runtimeVars, actor>>

\* botBuilder.executeOnResponse(s, context, text)
Call_executeOnResponse(s) ==
  \E o \in executeOnResponse(handlers, s, ctxData) :
    /\ lastCall' = Call("onResponse", s, o)
    /\ ctxData' = o.data
    /\ UNCHANGED <<handlers, lastReg, lastRegCall, runtimeVars, actor>>


(***************************************************************************)
(* Durable storage (database.ts) and the serialized state data             *)
(***************************************************************************)
\* the update handlers that can be in flight at the same time
Updates == {"u1", "u2"}
\* a transport that delivers one update at a time
SerialUpdates == {"u1"}
\* getUserByTelegramId(...) === null
NoUser == [exists |-> FALSE]

\* JSON.stringify(stateData): the defined entries, in key order, as text
JSONstringify(d) ==
  SelectSeq([i \in 1..Len(KeySeq) |-> <<KeySeq[i], d[KeySeq[i]]>>],
            LAMBDA p : p[2] # None)

\* a load that ignores the stored text
JSONparse_Empty(t) == EmptyData

\* user.info?.stateData ? JSON.parse(user.info.stateData) : {}
JSONparse(t) ==
  [k \in Keys |->
     IF \E i \in 1..Len(t) : t[i][1] = k
     THEN t[CHOOSE i \in 1..Len(t) : t[i][1] = k][2]
     ELSE None]

\* createOrUpdateUser({telegramId, chatId, currentState: "idle", stateData: {}})
createOrUpdateUser(db, id, state, data) ==
  [db EXCEPT ![id] = [telegramId |-> id, currentState |-> state,
                      stateData |-> JSONstringify(data)]]

\* an update without its where clause: every user record gets the new state
userUpdate_AllRows(db, id, state) ==
  [i \in DOMAIN db |-> IF db[i] = NoUser THEN db[i]
                       ELSE [db[i] EXCEPT !.currentState = state]]

\* updateUserState, first statement: prisma.user.update({ data: { currentState } });
\* for an unknown user the call throws and the storage is left as it is
userUpdate(db, id, state) ==
  IF db[id] = NoUser THEN db ELSE [db EXCEPT ![id].currentState = state]

\* updateUserState, second statement: prisma.userInfo.upsert({ stateData: JSON.stringify(...) })
userInfoUpsert(db, id, data) ==
  IF db[id] = NoUser THEN db ELSE [db EXCEPT ![id].stateData = JSONstringify(data)]

\* updateUserState(telegramId, currentState, stateData), run to its end
updateUserState(db, id, state, data) ==
  userInfoUpsert(userUpdate(db, id, state), id, data)

\* database.ts (used by the xstate runtimes and by bot/session.ts) issues the two
\* statements of updateUserState one after the other; the adapter handed to
\* core/bot issues one nested update
SplitWrite == runtime \in {"xstate", "xstate_webhook", "grammy_legacy"}

(***************************************************************************)
(* One message-handling cycle.  A cycle record holds the locals of the     *)
(* handler that processes the update:                                      *)
(*   cur     user.currentState (xstate) / session.currentState (grammy)    *)
(*   sdata   userStateData (xstate) / session.stateData (grammy)           *)
(*   ldata   the working copy the context's getData / setData are bound to *)
(*   target  the state about to be entered                                 *)
(* and what the cycle has done so far:                                     *)
(*   chain   the states executeOnEnter was called for, in the current chain*)
(*   nwrites storage writes issued by the cycle                            *)
(*   s0, d0  the durable state and data the cycle loaded                   *)
(*   stepStart  the durable currentState when the current step began       *)
(*   lastSet per key, the value of the latest setData of the cycle         *)
(*   ctxState   context.currentState of the handler context in use         *)
(*   ectx    context.currentState as each onEnter call of `chain` saw it   *)
(*   ichain  the onEnter calls made for a new session, before onResponse   *)
(*   r0      the state onResponse was invoked for                          *)
(*   rret    what onResponse returned                                      *)
(*   late    the cycle loaded its session after another cycle of the same  *)
(*           identity had begun to persist                                 *)
(*   wrec    the arguments of the cycle's latest updateUserState call      *)
(*   wcalls  the arguments of all updateUserState calls of the cycle       *)
(*   text    the text of the message                                       *)
(*   found   existingUser of the createOrUpdateUser call is set            *)
(*   tdata   session.stateData when the context.transition call returned   *)
(*   wdata   the state data mapping handed to the cycle's latest write      *)
(*   prev    an earlier cycle of the identity has written its session      *)
(*   pdata   the state data mapping the latest such write was handed       *)
(*   sendFailed  the context.send of the latest handler invocation failed  *)
(*   notice  the failure message of the transport: "sent", "lost" or none  *)
(*   wtime   when that call completed, counted in completed calls          *)
(*   trans   the argument of the context.transition(...) onResponse made   *)
(*   tchain  the onEnter calls made inside that context.transition call    *)
(*   pendRet, pendData  result and working copy of a handler that is       *)
(*           waiting for its context.transition call to return             *)
(***************************************************************************)
IdleCycle ==
  [pc |-> "idle", id |-> None, cur |-> None, sdata |-> EmptyData, ldata |-> EmptyData,
   target |-> None, phase |-> None, isNew |-> FALSE, chain |-> <<>>, nwrites |-> 0,
   s0 |-> None, d0 |-> EmptyData, stepStart |-> None, lastSet |-> EmptyData,
   failedAt |-> None, after |-> None, ctxState |-> None, ectx |-> <<>>,
   ichain |-> <<>>, r0 |-> None, rret |-> None, trans |-> None, tchain |-> <<>>,
   pendRet |-> None, pendData |-> EmptyData, late |-> FALSE,
   wrec |-> [currentState |-> None, stateData |-> <<>>], wtime |-> 0,
   wcalls |-> {}, sendFailed |-> FALSE, notice |-> None,
   wdata |-> EmptyData, prev |-> FALSE, pdata |-> EmptyData, text |-> None,
   found |-> FALSE, tdata |-> EmptyData]

\* another cycle of identity id has begun to persist
PersistedBefore(u, id) ==
  \E v \in Updates \ {u} : cyc[v].id = id /\ cyc[v].nwrites > 0

\* the number of updateUserState calls completed so far
Clock ==
  LET ts == {cyc[v].wtime : v \in Updates} IN CHOOSE t \in ts : \A x \in ts : x <= t

WRec(state, data) == [currentState |-> state, stateData |-> JSONstringify(data)]

\* the setData of an invocation, merged into the cycle's latest writes
NoteSet(ls, op) == IF op = NoOp THEN ls ELSE [ls EXCEPT ![op[1]] = op[2]]

IsXState == runtime \in {"xstate", "xstate_webhook"}

\* context.send of the runtime, when the outbound send fails:
\*   handleUserMessage   send: (msg) => client.sendMessage(chatId, ...)   rejects
\*   createHandlerContext  send: await ctx.reply(text, ...)               rejects
\*   processUpdate       send: await sendMessage(...), which catches      resolves
SendRejects == runtime # "xstate_webhook"

\* the outcomes of a handler invoked on the runtime's context: those of the
\* handler, and those in which the context.send the handler awaits fails -- the
\* handler throws where send rejects and goes on where send resolves
OnContext(os) ==
  os \cup (IF SendRejects
           THEN {[o EXCEPT !.sendFailed = TRUE] : o \in {x \in os : x.threw}}
           ELSE {[o EXCEPT !.sendFailed = TRUE]
                   : o \in {x \in os : ~x.threw /\ x.handler # NoHandler}})

\* the cycle record, with the send of the invocation noted
Sent(c, o) == [c EXCEPT !.sendFailed = o.sendFailed]

\* the message texts the updates carry
Texts == {"hi", "/start"}

\* createBot registers bot.on('message:text', ...) and then bot.command('start',
\* ...).  The library offers an update to the handlers in registration order; a
\* handler whose filter matches runs, and the later ones see the update only if
\* it calls next().  Neither handler takes `next`.
BotHandlers == <<"message:text", "command:start">>
Matches(h, text) == h = "message:text" \/ (h = "command:start" /\ text = "/start")
CallsNext(h) == FALSE

RECURSIVE Run(_, _)
Run(i, text) ==
  IF i > Len(BotHandlers) THEN <<>>
  ELSE IF ~Matches(BotHandlers[i], text) THEN Run(i + 1, text)
  ELSE IF CallsNext(BotHandlers[i]) THEN <<BotHandlers[i]>> \o Run(i + 1, text)
  ELSE <<BotHandlers[i]>>

\* the handlers of createBot that run for a text message
Dispatch(text) == Run(1, text)

\* an update with the given text arrives and its handler starts
Receive(u, id, text) ==
  /\ cyc[u].pc \in {"idle", "done", "failed", "caught", "escaped"}
  /\ cyc' = [cyc EXCEPT ![u] =
       [IdleCycle EXCEPT !.id = id, !.text = text,
                         !.prev = cyc[u].id = id /\ (cyc[u].nwrites > 0 \/ cyc[u].prev),
                         !.pdata = IF cyc[u].id # id THEN EmptyData
                                   ELSE IF cyc[u].nwrites > 0 THEN cyc[u].wdata
                                   ELSE cyc[u].pdata,
                         !.pc = IF IsXState THEN "getUser" ELSE "sessionRead"]]
  /\ UNCHANGED <<actor, builderVars, runtime, users>>

\* an update arrives and its handler starts
Begin(u, id) == Receive(u, id, "hi")

(***************************************************************************)
(* XState runtimes: handleUserMessage (bot/polling) and processUpdate      *)
(* (bot/webhook) run the same steps.                                       *)
(***************************************************************************)
\* let user = await getUserByTelegramId(telegramId)
X_getUser(u) ==
  LET c == cyc[u] IN
  /\ IsXState /\ c.pc = "getUser"
  /\ IF users[c.id] = NoUser
     THEN cyc' = [cyc EXCEPT ![u].pc = "findExisting", ![u].after = "createUser"]
     ELSE cyc' = [cyc EXCEPT ![u].pc = "onResponse",
                             ![u].cur = users[c.id].currentState,
                             ![u].sdata = JSONparse(users[c.id].stateData),
                             ![u].ldata = JSONparse(users[c.id].stateData),
                             ![u].s0 = users[c.id].currentState,
                             ![u].d0 = JSONparse(users[c.id].stateData),
                             ![u].ctxState = users[c.id].currentState,
                             ![u].late = PersistedBefore(u, c.id),
                             ![u].stepStart = users[c.id].currentState]
  /\ UNCHANGED <<actor, builderVars, runtime, users>>

\* createOrUpdateUser, its first statement: const existingUser = await
\* getUserByTelegramId(data.telegramId) (database.ts) / prisma.user.findUnique
\* (the adapter of core/bot)
DB_findExisting(u) ==
  LET c == cyc[u] IN
  /\ c.pc = "findExisting"
  /\ cyc' = [cyc EXCEPT ![u].pc = c.after, ![u].after = None,
                        ![u].found = users[c.id] # NoUser]
  /\ UNCHANGED <<actor, builderVars, runtime, users>>

\* user = await createOrUpdateUser({..., currentState: "idle", stateData: {}}),
\* after its look-up.  telegramId is the unique key of the user table:
\* prisma.user.create rejects when a record of the identity exists by now.  For
\* a user it found, database.ts updates the user, upserts the state data and
\* reads the record again.
X_createUser(u) ==
  LET c == cyc[u]
      db == createOrUpdateUser(users, c.id, "idle", EmptyData) IN
  /\ IsXState /\ c.pc = "createUser"
  /\ IF ~c.found /\ users[c.id] # NoUser
     THEN /\ users' = users
          /\ cyc' = [cyc EXCEPT ![u].pc = "failed"]
     ELSE IF c.found
     THEN /\ users' = userUpdate(users, c.id, "idle")
          /\ cyc' = [cyc EXCEPT ![u].pc = "upsert", ![u].after = "reread",
                                ![u].isNew = TRUE, ![u].wdata = EmptyData,
                                ![u].sdata = EmptyData, ![u].ldata = EmptyData,
                                ![u].nwrites = c.nwrites + 1]
     ELSE /\ users' = db
          /\ cyc' = [cyc EXCEPT ![u].pc = "onResponse",
                                ![u].isNew = TRUE, ![u].wdata = EmptyData,
                                ![u].nwrites = c.nwrites + 1,
                                ![u].cur = db[c.id].currentState,
                                ![u].sdata = JSONparse(db[c.id].stateData),
                                ![u].ldata = JSONparse(db[c.id].stateData),
                                ![u].s0 = db[c.id].currentState,
                                ![u].d0 = JSONparse(db[c.id].stateData),
                                ![u].ctxState = db[c.id].currentState,
                                ![u].stepStart = db[c.id].currentState]
  /\ UNCHANGED <<actor, builderVars, runtime>>

\* createOrUpdateUser of database.ts, for a user it found:
\* return (await getUserByTelegramId(data.telegramId))!
X_reread(u) ==
  LET c == cyc[u] IN
  /\ IsXState /\ c.pc = "reread"
  /\ cyc' = [cyc EXCEPT ![u].pc = "onResponse",
                        ![u].cur = users[c.id].currentState,
                        ![u].sdata = JSONparse(users[c.id].stateData),
                        ![u].ldata = JSONparse(users[c.id].stateData),
                        ![u].s0 = users[c.id].currentState,
                        ![u].d0 = JSONparse(users[c.id].stateData),
                        ![u].ctxState = users[c.id].currentState,
                        ![u].stepStart = users[c.id].currentState]
  /\ UNCHANGED <<actor, builderVars, runtime, users>>

\* if (responseNextState && responseNextState !== user.currentState)
X_shouldTransition(next, cur) == next # None /\ next # cur

\* if (enterNextState && enterNextState !== responseNextState)
X_shouldChain(enterNext, entered) == enterNext # None /\ enterNext # entered

\* if (JSON.stringify(stateData) !== JSON.stringify(userStateData))
X_dataChanged(stateData, userStateData) ==
  JSONstringify(stateData) # JSONstringify(userStateData)

\* const responseNextState = await botBuilder.executeOnResponse(user.currentState, ...)
\* A context.transition(toState) of the handler is actor.send({ type: "TRANSITION",
\* toState }): it assigns currentState in the actor's own context, which nothing
\* reads before actor.stop().
X_onResponse(u) ==
  LET c == cyc[u] IN
  /\ IsXState /\ c.pc = "onResponse"
  /\ \E o \in OnContext(executeOnResponse(handlers, c.cur, c.ldata)) :
       cyc' = [cyc EXCEPT ![u] =
         IF o.threw THEN [Sent(c, o) EXCEPT !.pc = "failed", !.failedAt = c.cur]
         ELSE [Sent(c, o) EXCEPT !.ldata = o.data,
                        !.lastSet = NoteSet(c.lastSet, o.op),
                        !.phase = "response",
                        !.r0 = c.cur, !.rret = o.ret,
                        !.trans = o.trans,
                        !.target = o.ret,
                        !.pc = IF X_shouldTransition(o.ret, c.cur) THEN "persist1"
                               ELSE "persistData"]]
  /\ UNCHANGED <<actor, builderVars, runtime, users>>

\* await updateUserState(telegramId, responseNextState, stateData);
\* context.currentState = responseNextState
X_persist1(u) ==
  LET c == cyc[u] IN
  /\ IsXState /\ c.pc = "persist1"
  /\ users' = userUpdate(users, c.id, c.target)
  /\ cyc' = [cyc EXCEPT ![u].pc = "upsert", ![u].after = "enter1",
                        ![u].wrec = WRec(c.target, c.ldata),
                        ![u].wdata = c.ldata,
                        ![u].wcalls = c.wcalls \cup {WRec(c.target, c.ldata)},
                        ![u].ctxState = c.target,
                        ![u].stepStart = users[c.id].currentState,
                        ![u].nwrites = c.nwrites + 1]
  /\ UNCHANGED <<actor, builderVars, runtime>>

\* const enterNextState = await botBuilder.executeOnEnter(responseNextState, context)
X_enter1(u) ==
  LET c == cyc[u] IN
  /\ IsXState /\ c.pc = "enter1"
  /\ \E o \in OnContext(executeOnEnter(handlers, c.target, c.ldata)) :
       cyc' = [cyc EXCEPT ![u] =
         IF o.threw THEN [Sent(c, o) EXCEPT !.pc = "failed", !.failedAt = c.target,
                                   !.chain = Append(c.chain, c.target),
                                   !.ectx = Append(c.ectx, c.ctxState)]
         ELSE [Sent(c, o) EXCEPT !.ldata = o.data,
                        !.lastSet = NoteSet(c.lastSet, o.op),
                        !.chain = Append(c.chain, c.target),
                        !.ectx = Append(c.ectx, c.ctxState),
                        !.target = IF X_shouldChain(o.ret, c.target) THEN o.ret ELSE c.target,
                        !.pc = IF X_shouldChain(o.ret, c.target) THEN "persist2" ELSE "done"]]
  /\ UNCHANGED <<actor, builderVars, runtime, users>>

\* await updateUserState(telegramId, enterNextState, stateData);
\* context.currentState = enterNextState
X_persist2(u) ==
  LET c == cyc[u] IN
  /\ IsXState /\ c.pc = "persist2"
  /\ users' = userUpdate(users, c.id, c.target)
  /\ cyc' = [cyc EXCEPT ![u].pc = "upsert", ![u].after = "enter2",
                        ![u].wrec = WRec(c.target, c.ldata),
                        ![u].wdata = c.ldata,
                        ![u].wcalls = c.wcalls \cup {WRec(c.target, c.ldata)},
                        ![u].ctxState = c.target,
                        ![u].stepStart = users[c.id].currentState,
                        ![u].nwrites = c.nwrites + 1]
  /\ UNCHANGED <<actor, builderVars, runtime>>

\* await botBuilder.executeOnEnter(enterNextState, context): the result is dropped
X_enter2(u) ==
  LET c == cyc[u] IN
  /\ IsXState /\ c.pc = "enter2"
  /\ \E o \in OnContext(executeOnEnter(handlers, c.target, c.ldata)) :
       cyc' = [cyc EXCEPT ![u] =
         IF o.threw THEN [Sent(c, o) EXCEPT !.pc = "failed", !.failedAt = c.target,
                                   !.chain = Append(c.chain, c.target),
                                   !.ectx = Append(c.ectx, c.ctxState)]
         ELSE [Sent(c, o) EXCEPT !.ldata = o.data,
                        !.lastSet = NoteSet(c.lastSet, o.op),
                        !.chain = Append(c.chain, c.target),
                        !.ectx = Append(c.ectx, c.ctxState),
                        !.pc = "done"]]
  /\ UNCHANGED <<actor, builderVars, runtime, users>>

\* else { if (stateData changed) await updateUserState(telegramId, user.currentState, stateData) }
X_persistData(u) ==
  LET c == cyc[u] IN
  /\ IsXState /\ c.pc = "persistData"
  /\ IF X_dataChanged(c.ldata, c.sdata)
     THEN /\ users' = userUpdate(users, c.id, c.cur)
          /\ cyc' = [cyc EXCEPT ![u].pc = "upsert", ![u].after = "done",
                                ![u].wrec = WRec(c.cur, c.ldata),
                                ![u].wdata = c.ldata,
                                ![u].wcalls = c.wcalls \cup {WRec(c.cur, c.ldata)},
                                ![u].nwrites = c.nwrites + 1]
     ELSE /\ users' = users
          /\ cyc' = [cyc EXCEPT ![u].pc = "done"]
  /\ UNCHANGED <<actor, builderVars, runtime>>


(***************************************************************************)
(* Grammy runtimes: createBot of core/bot (polling, webhook) and of bot/   *)
(* (polling, webhook).  The session middleware of the library reads the    *)
(* session through the storage adapter before the handlers run and writes  *)
(* ctx.session back through it after they returned; it writes nothing when *)
(* a handler threw.                                                        *)
(***************************************************************************)
IsGrammy == runtime \in {"grammy_core", "grammy_legacy"}

\* SessionStorageAdapter.read(key), or initial() for an unknown key
SessionStorageAdapter_read(db, id) ==
  IF db[id] = NoUser
  THEN [currentState |-> "idle", stateData |-> EmptyData]
  ELSE [currentState |-> db[id].currentState, stateData |-> JSONparse(db[id].stateData)]

\* SessionStorageAdapter.write(key, value)
SessionStorageAdapter_write(db, id, state, data) == updateUserState(db, id, state, data)

\* const localStateData = { ...session.stateData }
createHandlerContext(sessionData) == sessionData

\* a transition that does not take the handler's writes over into the session
SaveStateData_Stale(localStateData, sessionData) == sessionData

\* session.stateData = handlerContext.getData('__all') || session.stateData
SaveStateData(localStateData, sessionData) == localStateData

\* a message handler that enters whatever onResponse returned, nothing included
Core_shouldTransition_Always(next, cur) == TRUE

\* a message handler that takes a result naming the current state as no transition
Core_shouldTransition_NotSame(next, cur) == next # None /\ next # cur

\* core/bot: if (nextState)
Core_shouldTransition(next, cur) == next # None

\* bot/: if (nextState && nextState !== session.currentState)
Legacy_shouldTransition(next, cur) == next # None /\ next # cur

\* a chaining test that never follows an onEnter result
G_shouldChain_Never(enterNext, toState) == FALSE

\* a chaining test without the same-state check
G_shouldChain_NoSelfCheck(enterNext, toState) == enterNext # None

\* if (enterNextState && enterNextState !== toState)
G_shouldChain(enterNext, toState) == enterNext # None /\ enterNext # toState

\* a getOrCreateSession that hands every known user the default session
ExistingSession_Default(user) == [currentState |-> "idle", stateData |-> EmptyData]

\* getOrCreateSession, if (existing): the session built from the stored record
ExistingSession(user) ==
  [currentState |-> user.currentState, stateData |-> JSONparse(user.stateData)]

\* session middleware, before next(): ctx.session = storage.read(key) ?? initial()
G_sessionRead(u) ==
  LET c == cyc[u]
      v == SessionStorageAdapter_read(users, c.id) IN
  /\ IsGrammy /\ c.pc = "sessionRead"
  /\ cyc' = [cyc EXCEPT ![u].pc = "getOrCreateSession",
                        ![u].cur = v.currentState,
                        ![u].sdata = v.stateData]
  /\ UNCHANGED <<actor, builderVars, runtime, users>>

\* getOrCreateSession: const existing = await getUserByTelegramId(telegramId)
G_getOrCreateSession(u) ==
  LET c == cyc[u] IN
  /\ IsGrammy /\ c.pc = "getOrCreateSession"
  /\ IF users[c.id] = NoUser
     THEN cyc' = [cyc EXCEPT ![u].pc = "findExisting", ![u].after = "createSession"]
     ELSE cyc' = [cyc EXCEPT ![u].pc = "onResponse",
                             ![u].cur = ExistingSession(users[c.id]).currentState,
                             ![u].sdata = ExistingSession(users[c.id]).stateData,
                             ![u].s0 = users[c.id].currentState,
                             ![u].d0 = JSONparse(users[c.id].stateData),
                             ![u].late = PersistedBefore(u, c.id),
                             ![u].stepStart = users[c.id].currentState]
  /\ UNCHANGED <<actor, builderVars, runtime, users>>

\* getOrCreateSession: const newUser = await createOrUpdateUser({... "idle", {}}),
\* after its look-up; the session returned is { currentState: 'idle',
\* stateData: {} } with isNew: true whichever branch createOrUpdateUser took.
\* bot/session.ts goes through database.ts (two statements for a user it found),
\* core/bot through the adapter's single nested update.
G_createSession(u) ==
  LET c == cyc[u]
      db == createOrUpdateUser(users, c.id, "idle", EmptyData)
      entry == IF runtime = "grammy_core" THEN "initialEnter" ELSE "onResponse"
      fresh == [c EXCEPT !.isNew = TRUE, !.wdata = EmptyData,
                         !.nwrites = c.nwrites + 1,
                         !.cur = "idle",
                         !.sdata = EmptyData,
                         !.s0 = "idle",
                         !.d0 = EmptyData,
                         !.stepStart = "idle"] IN
  /\ IsGrammy /\ c.pc = "createSession"
  /\ IF ~c.found /\ users[c.id] # NoUser
     THEN /\ users' = users
          /\ cyc' = [cyc EXCEPT ![u].pc = "failed"]
     ELSE IF c.found /\ SplitWrite
     THEN /\ users' = userUpdate(users, c.id, "idle")
          /\ cyc' = [cyc EXCEPT ![u] = [fresh EXCEPT !.pc = "upsert", !.after = entry]]
     ELSE /\ users' = db
          /\ cyc' = [cyc EXCEPT ![u] = [fresh EXCEPT !.pc = entry]]
  /\ UNCHANGED <<actor, builderVars, runtime>>

\* core/bot middleware: if (isNew) { executeOnEnter(userSession.currentState, ...) }
G_initialEnter(u) ==
  LET c == cyc[u]
      local == createHandlerContext(c.sdata) IN
  /\ runtime = "grammy_core" /\ c.pc = "initialEnter"
  /\ \E o \in OnContext(executeOnEnter(handlers, c.cur, local)) :
       cyc' = [cyc EXCEPT ![u] =
         IF o.threw THEN [Sent(c, o) EXCEPT !.pc = "failed", !.failedAt = c.cur,
                                   !.phase = "initial",
                                   !.chain = <<c.cur>>, !.ectx = <<c.cur>>, !.ctxState = c.cur]
         ELSE IF G_shouldChain(o.ret, c.cur)
         THEN [Sent(c, o) EXCEPT !.pc = "enter", !.phase = "initial", !.target = o.ret,
                        !.chain = <<c.cur>>, !.ectx = <<c.cur>>, !.ctxState = c.cur,
                        !.ldata = o.data,
                        !.lastSet = NoteSet(c.lastSet, o.op)]
         ELSE [Sent(c, o) EXCEPT !.pc = "onResponse", !.phase = "initial",
                        !.chain = <<c.cur>>, !.ectx = <<c.cur>>, !.ctxState = c.cur,
                        !.ldata = o.data,
                        !.sdata = SaveStateData(o.data, c.sdata),
                        !.lastSet = NoteSet(c.lastSet, o.op)]]
  /\ UNCHANGED <<actor, builderVars, runtime, users>>

\* bot.on('message:text'): executeOnResponse(session.currentState, handlerContext, text)
G_onResponse(u) ==
  LET c == cyc[u]
      local == createHandlerContext(c.sdata)
      go(next) == IF runtime = "grammy_core" THEN Core_shouldTransition(next, c.cur)
                  ELSE Legacy_shouldTransition(next, c.cur) IN
  /\ IsGrammy /\ c.pc = "onResponse"
  /\ Head(Dispatch(c.text)) = "message:text"
  /\ \E o \in OnContext(executeOnResponse(handlers, c.cur, local)) :
       cyc' = [cyc EXCEPT ![u] =
         IF o.threw THEN [Sent(c, o) EXCEPT !.pc = "failed", !.failedAt = c.cur,
                                   !.phase = "response", !.r0 = c.cur,
                                   !.ichain = c.chain, !.chain = <<>>, !.ectx = <<>>]
         ELSE IF o.trans # None
         THEN \* the handler awaits context.transition(toState): transitionToState(ctx,
              \* session, toState, createHandlerContext(ctx, session, database))
              [Sent(c, o) EXCEPT !.pc = "enter", !.phase = "transition", !.target = o.trans,
                        !.r0 = c.cur, !.ctxState = c.cur, !.trans = o.trans,
                        !.ichain = c.chain, !.chain = <<>>, !.ectx = <<>>,
                        !.ldata = createHandlerContext(c.sdata),
                        !.pendRet = o.ret, !.pendData = o.data,
                        !.lastSet = NoteSet(c.lastSet, o.op),
                        !.stepStart = users[c.id].currentState]
         ELSE IF go(o.ret)
         THEN [Sent(c, o) EXCEPT !.pc = "enter", !.phase = "response", !.target = o.ret,
                        !.r0 = c.cur, !.rret = o.ret, !.ctxState = c.cur,
                        !.ichain = c.chain, !.chain = <<>>, !.ectx = <<>>,
                        !.ldata = o.data,
                        !.lastSet = NoteSet(c.lastSet, o.op),
                        !.stepStart = users[c.id].currentState]
         ELSE [Sent(c, o) EXCEPT !.pc = "write", !.phase = "response", !.target = o.ret,
                        !.r0 = c.cur, !.rret = o.ret, !.ctxState = c.cur,
                        !.ichain = c.chain, !.chain = <<>>, !.ectx = <<>>,
                        !.ldata = o.data,
                        !.sdata = SaveStateData(o.data, c.sdata),
                        !.lastSet = NoteSet(c.lastSet, o.op)]]
  /\ UNCHANGED <<actor, builderVars, runtime, users>>

\* bot.command('start'): transitionToState(ctx, session, 'welcome', handlerContext)
G_startCommand(u) ==
  LET c == cyc[u] IN
  /\ IsGrammy /\ c.pc = "onResponse"
  /\ Head(Dispatch(c.text)) = "command:start"
  /\ cyc' = [cyc EXCEPT ![u].pc = "enter", ![u].phase = "command",
                        ![u].target = "welcome", ![u].ctxState = c.cur,
                        ![u].ichain = c.chain, ![u].chain = <<>>, ![u].ectx = <<>>,
                        ![u].ldata = createHandlerContext(c.sdata),
                        ![u].stepStart = users[c.id].currentState]
  /\ UNCHANGED <<actor, builderVars, runtime, users>>

\* transitionToState(ctx, session, toState, handlerContext): one level of the
\* recursion; the chained call runs as the next step
transitionToState(u) ==
  LET c == cyc[u] IN
  /\ IsGrammy /\ c.pc = "enter"
  /\ Len(c.chain) < MaxChain
  /\ \E o \in OnContext(executeOnEnter(handlers, c.target, c.ldata)) :
       cyc' = [cyc EXCEPT ![u] =
         IF o.threw THEN [Sent(c, o) EXCEPT !.pc = "failed", !.failedAt = c.target,
                                   !.cur = c.target,
                                   !.chain = Append(c.chain, c.target),
                                   !.ectx = Append(c.ectx, c.ctxState)]
         ELSE LET saved == SaveStateData(o.data, c.sdata) IN
              IF G_shouldChain(o.ret, c.target)
              THEN [Sent(c, o) EXCEPT !.cur = c.target,
                             !.chain = Append(c.chain, c.target),
                        !.ectx = Append(c.ectx, c.ctxState),
                             !.sdata = saved,
                             !.ldata = createHandlerContext(saved),
                             !.lastSet = NoteSet(c.lastSet, o.op),
                             !.target = o.ret,
                             !.ctxState = o.ret,
                             !.stepStart = users[c.id].currentState]
              ELSE [Sent(c, o) EXCEPT !.cur = c.target,
                             !.chain = Append(c.chain, c.target),
                        !.ectx = Append(c.ectx, c.ctxState),
                             !.sdata = saved,
                             !.ldata = o.data,
                             !.lastSet = NoteSet(c.lastSet, o.op),
                             !.pc = IF c.phase = "initial" THEN "onResponse"
                                    ELSE IF c.phase = "transition" THEN "resume"
                                    ELSE "write"]]
  /\ UNCHANGED <<actor, builderVars, runtime, users>>

\* context.transition(...) returned: the handler returns its own result and the
\* message handler goes on with it and with the handler's context
G_resume(u) ==
  LET c == cyc[u]
      go(next) == IF runtime = "grammy_core" THEN Core_shouldTransition(next, c.cur)
                  ELSE Legacy_shouldTransition(next, c.cur) IN
  /\ IsGrammy /\ c.pc = "resume"
  /\ cyc' = [cyc EXCEPT ![u] =
       IF go(c.pendRet)
       THEN [c EXCEPT !.pc = "enter", !.phase = "response", !.target = c.pendRet,
                      !.rret = c.pendRet, !.ctxState = c.r0, !.tdata = c.sdata,
                      !.tchain = c.chain, !.chain = <<>>, !.ectx = <<>>,
                      !.ldata = c.pendData,
                      !.stepStart = users[c.id].currentState]
       ELSE [c EXCEPT !.pc = "write", !.phase = "response", !.target = c.pendRet,
                      !.rret = c.pendRet, !.tdata = c.sdata,
                      !.tchain = c.chain, !.chain = <<>>, !.ectx = <<>>,
                      !.ldata = c.pendData,
                      !.sdata = SaveStateData(c.pendData, c.sdata)]]
  /\ UNCHANGED <<actor, builderVars, runtime, users>>

\* the states transitionToState(ctx, session, toState, ...) enters, the chained
\* calls included, followed for at most n calls
RECURSIVE GrammyChain(_, _, _)
GrammyChain(reg, toState, n) ==
  LET h == LookupOnEnter(reg, toState)
      enterNextState == IF h = NoHandler THEN None ELSE EnterRet(h) IN
  IF n = 0 THEN <<>>
  ELSE IF G_shouldChain(enterNextState, toState)
       THEN <<toState>> \o GrammyChain(reg, enterNextState, n - 1)
       ELSE <<toState>>

\* session middleware, after next(): storage.write(key, ctx.session)
G_sessionWrite(u) ==
  LET c == cyc[u] IN
  /\ IsGrammy /\ c.pc = "write"
  /\ IF SplitWrite
     THEN /\ users' = userUpdate(users, c.id, c.cur)
          /\ cyc' = [cyc EXCEPT ![u].pc = "upsert", ![u].after = "done",
                                ![u].wrec = WRec(c.cur, c.sdata),
                                ![u].wdata = c.sdata,
                                ![u].wcalls = c.wcalls \cup {WRec(c.cur, c.sdata)},
                                ![u].nwrites = c.nwrites + 1]
     ELSE /\ users' = SessionStorageAdapter_write(users, c.id, c.cur, c.sdata)
          /\ cyc' = [cyc EXCEPT ![u].pc = "done", ![u].nwrites = c.nwrites + 1,
                                ![u].wrec = WRec(c.cur, c.sdata),
                                ![u].wdata = c.sdata,
                                ![u].wcalls = c.wcalls \cup {WRec(c.cur, c.sdata)},
                                ![u].wtime = Clock + 1]
  /\ UNCHANGED <<actor, builderVars, runtime>>

\* updateUserState of database.ts, its second statement: the state data the
\* caller handed over is serialized and stored
DB_upsertStateData(u) ==
  LET c == cyc[u] IN
  /\ SplitWrite /\ c.pc = "upsert"
  /\ users' = userInfoUpsert(users, c.id, IF IsXState THEN c.ldata ELSE c.sdata)
  /\ cyc' = [cyc EXCEPT ![u].pc = c.after, ![u].after = None,
                        ![u].wtime = Clock + 1]
  /\ UNCHANGED <<actor, builderVars, runtime>>

(***************************************************************************)
(* The transport-layer callers of a cycle that threw                       *)
(***************************************************************************)
\* startPollingMode of bot/polling: catch (error) { console.error(...); try {
\* await client.sendMessage(chatId, { message: "An error occurred..." }) } catch {} }
Polling_onError(u) ==
  LET c == cyc[u] IN
  /\ runtime = "xstate" /\ c.pc = "failed"
  /\ \E delivered \in BOOLEAN :
       cyc' = [cyc EXCEPT ![u].pc = "caught",
                          ![u].notice = IF delivered THEN "sent" ELSE "lost"]
  /\ UNCHANGED <<actor, builderVars, runtime, users>>

\* startWebhookMode of bot/webhook: catch (error) { console.error(...) }
Webhook_onError(u) ==
  LET c == cyc[u] IN
  /\ runtime = "xstate_webhook" /\ c.pc = "failed"
  /\ cyc' = [cyc EXCEPT ![u].pc = "caught"]
  /\ UNCHANGED <<actor, builderVars, runtime, users>>

\* createBot: the message:text handler and the middleware before it await the
\* cycle without a try/catch, and no bot.catch is installed: the error leaves
\* the handler for the library's default error handling
Grammy_onError(u) ==
  LET c == cyc[u] IN
  /\ IsGrammy /\ c.pc = "failed"
  /\ cyc' = [cyc EXCEPT ![u].pc = "escaped"]
  /\ UNCHANGED <<actor, builderVars, runtime, users>>

(***************************************************************************)
(* The session API called directly, one call at a time: getOrCreateSession *)
(* and the storage adapter's read / write / delete                         *)
(***************************************************************************)
\* an adapter whose delete removes the record
SessionStorageAdapter_delete_Removes(db, id) == [db EXCEPT ![id] = NoUser]

\* SessionStorageAdapter.delete(key): updateUserState(key, 'idle', {})
SessionStorageAdapter_delete(db, id) == updateUserState(db, id, "idle", EmptyData)

SessionCall(op, id, value, threw) ==
  [op |-> op, key |-> id, before |-> users[id], value |-> value, threw |-> threw]

\* getOrCreateSession(telegramId, chatId)
Call_getOrCreateSession(id) ==
  /\ IF users[id] = NoUser
     THEN /\ users' = createOrUpdateUser(users, id, "idle", EmptyData)
          /\ lastCall' = SessionCall("getOrCreateSession", id,
                            [currentState |-> "idle", stateData |-> EmptyData, isNew |-> TRUE],
                            FALSE)
     ELSE /\ users' = users
          /\ lastCall' = SessionCall("getOrCreateSession", id,
                            [currentState |-> ExistingSession(users[id]).currentState,
                             stateData |-> ExistingSession(users[id]).stateData,
                             isNew |-> FALSE],
                            FALSE)
  /\ UNCHANGED <<handlers, lastReg, lastRegCall, ctxData, runtime, cyc, actor>>

\* adapter.read(key)
Call_read(id) ==
  /\ lastCall' = SessionCall("read", id,
                    IF users[id] = NoUser THEN None
                    ELSE [currentState |-> users[id].currentState,
                          stateData |-> JSONparse(users[id].stateData)],
                    FALSE)
  /\ UNCHANGED <<handlers, lastReg, lastRegCall, ctxData, runtimeVars, actor>>

\* adapter.write(key, value): throws for an unknown user
Call_write(id, state, data) ==
  /\ users' = SessionStorageAdapter_write(users, id, state, data)
  /\ lastCall' = SessionCall("write", id,
                    [currentState |-> state, stateData |-> data], users[id] = NoUser)
  /\ UNCHANGED <<handlers, lastReg, lastRegCall, ctxData, runtime, cyc, actor>>

\* adapter.delete(key): throws for an unknown user
Call_delete(id) ==
  /\ users' = SessionStorageAdapter_delete(users, id)
  /\ lastCall' = SessionCall("delete", id, None, users[id] = NoUser)
  /\ UNCHANGED <<handlers, lastReg, lastRegCall, ctxData, runtime, cyc, actor>>

(***************************************************************************)
(* compactMachine (core/index.ts): one node, "active"; the bot state is    *)
(* data, context.currentState.  An actor record holds the node, the        *)
(* context, the input it was created with and the events sent to it.       *)
(***************************************************************************)
\* no actor has been created
NoActor == [machine |-> "none"]
\* most events sent to one actor
MaxEvents == 3

\* the events of compactMachine
Reenter == [type |-> "REENTER", toState |-> None]
Transition(toState) == [type |-> "TRANSITION", toState |-> toState]
BotEvents == {Reenter} \cup {Transition(t) : t \in States}

\* an updateState that leaves the context as it is
updateState_Keep(context, event) == context

\* updateState: assign({ currentState: ({ event }) =>
\*   event.type === "TRANSITION" ? event.toState : "" })
updateState(context, event) ==
  [context EXCEPT !.currentState = IF event.type = "TRANSITION" THEN event.toState ELSE ""]

\* createActor(compactMachine, { input }).start(): context: ({ input }) => ({...})
createActor(input) ==
  [machine |-> "compact", node |-> "active",
   context |-> [currentState |-> input.currentState, stateData |-> input.stateData],
   input |-> input, sent |-> <<>>]

\* actor.send({ type: "TRANSITION", toState }): actions updateState, persistState
\* (a log line); target "active", reenter: true
Compact_TRANSITION(toState) ==
  /\ actor.machine = "compact" /\ actor.node = "active"
  /\ Len(actor.sent) < MaxEvents
  /\ actor' = [actor EXCEPT !.context = updateState(actor.context, Transition(toState)),
                            !.node = "active",
                            !.sent = Append(actor.sent, Transition(toState))]
  /\ UNCHANGED <<builderVars, runtimeVars>>

\* actor.send({ type: "REENTER" }): no actions; target "active", reenter: true
Compact_REENTER ==
  /\ actor.machine = "compact" /\ actor.node = "active"
  /\ Len(actor.sent) < MaxEvents
  /\ actor' = [actor EXCEPT !.node = "active",
                            !.sent = Append(actor.sent, Reenter)]
  /\ UNCHANGED <<builderVars, runtimeVars>>

(***************************************************************************)
(* Specifications                                                          *)
(***************************************************************************)
NoRegs == [s \in States |-> EmptyHandlers]

\* the registries the builder can produce: a state is a key once a handler of
\* either kind was registered for it
Registries ==
  UNION {{r \in [D -> StateHandlers] :
            \A s \in D : r[s].onEnter # NoHandler \/ r[s].onResponse # NoHandler}
         : D \in SUBSET States}

RegsOf(reg) == [s \in States |-> GetOrEmpty(reg, s)]

\* the registries the runtimes are driven with: every onResponse is "r1" or absent
RuntimeRegistries ==
  {r \in Registries : \A s \in DOMAIN r : r[s].onResponse \in {NoHandler, [kind |-> "response", id |-> "r1"]}}

\* the builder API on a fresh BotBuilder
InitBuilder ==
  /\ handlers = <<>>
  /\ lastReg = NoRegs
  /\ lastRegCall = NoRegCall
  /\ lastCall = NoCall
  /\ ctxData \in DataStores
  /\ runtime = None
  /\ users = [i \in Identities |-> NoUser]
  /\ cyc = [u \in Updates |-> IdleCycle]
  /\ actor = NoActor

NextBuilder ==
  \/ \E s \in RegStates, h \in SomeEnterHandlers : StateBuilder_onEnter(s, h)
  \/ \E s \in RegStates, h \in ResponseHandlers : StateBuilder_onResponse(s, h)
  \/ \E ss \in StateLists, h \in SomeEnterHandlers : MultiStateBuilder_onEnter(ss, h)
  \/ \E ss \in StateLists, h \in ResponseHandlers : MultiStateBuilder_onResponse(ss, h)
  \/ \E s \in RegStates, h \in SomeEnterHandlers : BotBuilder_onEnter(s, h)
  \/ \E s \in RegStates, h \in ResponseHandlers : BotBuilder_onResponse(s, h)
  \/ \E s \in States : Call_executeOnEnter(s)
  \/ \E s \in States : Call_executeOnResponse(s)

SpecBuilder == InitBuilder /\ [][NextBuilder]_vars

\* a runtime serving updates, its handlers registered at start-up
Init ==
  /\ handlers \in RuntimeRegistries
  /\ lastReg = RegsOf(handlers)
  /\ lastRegCall = NoRegCall
  /\ lastCall = NoCall
  /\ ctxData = EmptyData
  /\ runtime \in Runtimes
  /\ users = [i \in Identities |-> NoUser]
  /\ cyc = [u \in Updates |-> IdleCycle]
  /\ actor = NoActor

Next ==
  \/ \E u \in SerialUpdates, id \in SerialIdentities : Begin(u, id)
  \/ \E u \in SerialUpdates : X_getUser(u)
  \/ \E u \in SerialUpdates : DB_findExisting(u)
  \/ \E u \in SerialUpdates : X_createUser(u)
  \/ \E u \in SerialUpdates : X_onResponse(u)
  \/ \E u \in SerialUpdates : X_persist1(u)
  \/ \E u \in SerialUpdates : X_enter1(u)
  \/ \E u \in SerialUpdates : X_persist2(u)
  \/ \E u \in SerialUpdates : X_enter2(u)
  \/ \E u \in SerialUpdates : X_persistData(u)
  \/ \E u \in SerialUpdates : G_sessionRead(u)
  \/ \E u \in SerialUpdates : G_getOrCreateSession(u)
  \/ \E u \in SerialUpdates : G_createSession(u)
  \/ \E u \in SerialUpdates : G_initialEnter(u)
  \/ \E u \in SerialUpdates : G_onResponse(u)
  \/ \E u \in SerialUpdates : transitionToState(u)
  \/ \E u \in SerialUpdates : G_sessionWrite(u)
  \/ \E u \in SerialUpdates : DB_upsertStateData(u)

Spec == Init /\ [][Next]_vars

\* a runtime whose onResponse handlers may call context.transition(...)
TransitionRegistries ==
  {r \in Registries :
     /\ DOMAIN r = States
     /\ \A s \in States :
          /\ r[s].onResponse = [kind |-> "response", id |-> "r2"]
          /\ r[s].onEnter \in SomeEnterHandlers \cup {NoHandler}}

InitTransition ==
  /\ handlers \in TransitionRegistries
  /\ lastReg = RegsOf(handlers)
  /\ lastRegCall = NoRegCall
  /\ lastCall = NoCall
  /\ ctxData = EmptyData
  /\ runtime \in Runtimes
  /\ users = [i \in Identities |-> NoUser]
  /\ cyc = [u \in Updates |-> IdleCycle]
  /\ actor = NoActor

NextTransition ==
  \/ Next
  \/ \E u \in SerialUpdates : G_resume(u)

SpecTransition == InitTransition /\ [][NextTransition]_vars

\* the runtimes with their transport-layer callers, processUpdate included
SendRegistries ==
  {r \in RuntimeRegistries :
     /\ DOMAIN r = States
     /\ \A s \in States : r[s].onEnter \in SomeEnterHandlers \cup {NoHandler}}

InitTransport ==
  /\ handlers \in SendRegistries
  /\ lastReg = RegsOf(handlers)
  /\ lastRegCall = NoRegCall
  /\ lastCall = NoCall
  /\ ctxData = EmptyData
  /\ runtime \in SendRuntimes
  /\ users = [i \in Identities |-> NoUser]
  /\ cyc = [u \in Updates |-> IdleCycle]
  /\ actor = NoActor

NextTransport ==
  \/ Next
  \/ \E u \in SerialUpdates : Polling_onError(u)
  \/ \E u \in SerialUpdates : Webhook_onError(u)
  \/ \E u \in SerialUpdates : Grammy_onError(u)

SpecTransport == InitTransport /\ [][NextTransport]_vars

\* the runtimes serving text messages, /start among them
NextStart ==
  \/ \E u \in SerialUpdates, id \in SerialIdentities, text \in Texts : Receive(u, id, text)
  \/ Next

SpecStart == InitTransport /\ [][NextStart]_vars

\* Updates that overlap: the transport hands every update to its handler as it
\* arrives, for whichever identity, while earlier handlers are still awaiting
\* their storage calls.  Both identities are known users in "idle".
ConcRegistry ==
  [s \in States |->
     [onEnter |-> IF s = "welcome" THEN EH("menu")
                  ELSE IF s = "menu" THEN EH(None) ELSE NoHandler,
      onResponse |-> [kind |-> "response", id |-> "r1"]]]

InitConc ==
  /\ handlers = ConcRegistry
  /\ lastReg = RegsOf(handlers)
  /\ lastRegCall = NoRegCall
  /\ lastCall = NoCall
  /\ ctxData = EmptyData
  /\ runtime \in Runtimes
  /\ users = [i \in Identities |-> [telegramId |-> i, currentState |-> "idle",
                                     stateData |-> JSONstringify(EmptyData)]]
  /\ cyc = [u \in Updates |-> IdleCycle]
  /\ actor = NoActor

\* each update is handled once
BeginOnce(u, id) == cyc[u].pc = "idle" /\ Begin(u, id)

NextConc ==
  \/ \E u \in Updates, id \in Identities : BeginOnce(u, id)
  \/ \E u \in Updates : X_getUser(u)
  \/ \E u \in Updates : X_onResponse(u)
  \/ \E u \in Updates : X_persist1(u)
  \/ \E u \in Updates : X_enter1(u)
  \/ \E u \in Updates : X_persist2(u)
  \/ \E u \in Updates : X_enter2(u)
  \/ \E u \in Updates : X_persistData(u)
  \/ \E u \in Updates : G_sessionRead(u)
  \/ \E u \in Updates : G_getOrCreateSession(u)
  \/ \E u \in Updates : G_onResponse(u)
  \/ \E u \in Updates : transitionToState(u)
  \/ \E u \in Updates : G_sessionWrite(u)
  \/ \E u \in Updates : DB_upsertStateData(u)

SpecConc == InitConc /\ [][NextConc]_vars

\* Updates of one identity that has no record yet, overlapping
NewRegistry == [ConcRegistry EXCEPT !["idle"].onEnter = EH("welcome")]

InitNew ==
  /\ handlers = NewRegistry
  /\ lastReg = RegsOf(handlers)
  /\ lastRegCall = NoRegCall
  /\ lastCall = NoCall
  /\ ctxData = EmptyData
  /\ runtime \in Runtimes
  /\ users = [i \in Identities |-> NoUser]
  /\ cyc = [u \in Updates |-> IdleCycle]
  /\ actor = NoActor

NextNew ==
  \/ \E u \in Updates, id \in SerialIdentities : BeginOnce(u, id)
  \/ \E u \in Updates : X_getUser(u)
  \/ \E u \in Updates : DB_findExisting(u)
  \/ \E u \in Updates : X_createUser(u)
  \/ \E u \in Updates : X_reread(u)
  \/ \E u \in Updates : X_onResponse(u)
  \/ \E u \in Updates : X_persist1(u)
  \/ \E u \in Updates : X_enter1(u)
  \/ \E u \in Updates : X_persist2(u)
  \/ \E u \in Updates : X_enter2(u)
  \/ \E u \in Updates : X_persistData(u)
  \/ \E u \in Updates : G_sessionRead(u)
  \/ \E u \in Updates : G_getOrCreateSession(u)
  \/ \E u \in Updates : G_createSession(u)
  \/ \E u \in Updates : G_initialEnter(u)
  \/ \E u \in Updates : G_onResponse(u)
  \/ \E u \in Updates : transitionToState(u)
  \/ \E u \in Updates : G_sessionWrite(u)
  \/ \E u \in Updates : DB_upsertStateData(u)

SpecNew == InitNew /\ [][NextNew]_vars

\* a compactMachine actor, created for some stored session and sent events
InitCompact ==
  /\ handlers = <<>>
  /\ lastReg = NoRegs
  /\ lastRegCall = NoRegCall
  /\ lastCall = NoCall
  /\ ctxData = EmptyData
  /\ runtime = None
  /\ users = [i \in Identities |-> NoUser]
  /\ cyc = [u \in Updates |-> IdleCycle]
  /\ \E s \in States, d \in DataStores :
       actor = createActor([currentState |-> s, stateData |-> d])

NextCompact ==
  \/ \E t \in States : Compact_TRANSITION(t)
  \/ Compact_REENTER

SpecCompact == InitCompact /\ [][NextCompact]_vars

\* ---- the legacy botMachine (bot-machine.js) ----
\* One actor: `node` is the state node it rests in ("handlingResponse" and
\* "transitioning" are the children of "processing"), `context` the machine
\* context (nextTransition is no key of the initial context, so it reads as
\* undefined, None here).  hasResponse is whether the registry holds a
\* response handler for the state executeResponse is invoked with.  `output`
\* (the nextTransition of the latest executeResponse output) and `prompted`
\* (the states whose prompt ran since the latest message) are ghosts.
MaxMessages == 4

Message(m) == [type |-> "message", message |-> m]

createBotActor(hasResponse) ==
  [machine |-> "bot", node |-> "idle",
   context |-> [currentState |-> "idle", message |-> None, nextTransition |-> None],
   hasResponse |-> hasResponse, output |-> None, prompted |-> <<>>, sent |-> <<>>]

\* executeResponse: the handler's result if there is a handler and the result
\* is truthy, undefined otherwise
executeResponse(hasResponse, result) ==
  IF hasResponse /\ result # None THEN result ELSE None

\* idle.on.message, then the entry action of processing.handlingResponse
Bot_message(m) ==
  /\ actor.machine = "bot"
  /\ actor.node = "idle"
  /\ Len(actor.sent) < MaxMessages
  /\ actor' = [actor EXCEPT !.node = "handlingResponse",
                            !.context.message = m,
                            !.context.currentState = "idle",
                            !.output = None,
                            !.prompted = <<>>,
                            !.sent = Append(@, Message(m))]
  /\ UNCHANGED <<builderVars, runtimeVars>>

\* executeResponse resolved: onDone picks the first transition whose guard
\* passes; the guard reads context.nextTransition, the result is in event.output
Bot_executeResponse_onDone(result) ==
  /\ actor.machine = "bot"
  /\ actor.node = "handlingResponse"
  /\ result # None => actor.hasResponse
  /\ actor' = IF actor.context.nextTransition # None
              THEN [actor EXCEPT !.node = "transitioning",
                                 !.context.currentState = actor.context.nextTransition,
                                 !.output = executeResponse(actor.hasResponse, result)]
              ELSE [actor EXCEPT !.node = "idle",
                                 !.output = executeResponse(actor.hasResponse, result)]
  /\ UNCHANGED <<builderVars, runtimeVars>>

\* executeResponse rejected (the response handler threw)
Bot_executeResponse_onError ==
  /\ actor.machine = "bot"
  /\ actor.node = "handlingResponse"
  /\ actor.hasResponse
  /\ actor' = [actor EXCEPT !.node = "idle"]
  /\ UNCHANGED <<builderVars, runtimeVars>>

\* executePrompt settled in processing.transitioning (onDone and onError both
\* target idle).  No run of the machine enables it: see C37.
Bot_executePrompt_settled ==
  /\ actor.machine = "bot"
  /\ actor.node = "transitioning"
  /\ actor' = [actor EXCEPT !.node = "idle",
                            !.prompted = Append(@, actor.context.currentState)]
  /\ UNCHANGED <<builderVars, runtimeVars>>

InitBot ==
  /\ handlers = <<>>
  /\ lastReg = NoRegs
  /\ lastRegCall = NoRegCall
  /\ lastCall = NoCall
  /\ ctxData = EmptyData
  /\ runtime = None
  /\ users = [i \in Identities |-> NoUser]
  /\ cyc = [u \in Updates |-> IdleCycle]
  /\ \E hasResponse \in BOOLEAN : actor = createBotActor(hasResponse)

NextBot ==
  \/ \E m \in Texts : Bot_message(m)
  \/ \E result \in States \cup {None} : Bot_executeResponse_onDone(result)
  \/ Bot_executeResponse_onError

SpecBot == InitBot /\ [][NextBot]_vars

\* the session API on an empty storage, behind either adapter
InitSession ==
  /\ handlers = <<>>
  /\ lastReg = NoRegs
  /\ lastRegCall = NoRegCall
  /\ lastCall = NoCall
  /\ ctxData = EmptyData
  /\ runtime \in {"grammy_core", "grammy_legacy"}
  /\ users = [i \in Identities |-> NoUser]
  /\ cyc = [u \in Updates |-> IdleCycle]
  /\ actor = NoActor

NextSession ==
  \/ \E id \in Identities : Call_getOrCreateSession(id)
  \/ \E id \in Identities : Call_read(id)
  \/ \E id \in Identities, st \in States, d \in DataStores : Call_write(id, st, d)
  \/ \E id \in Identities : Call_delete(id)

SpecSession == InitSession /\ [][NextSession]_vars


(***************************************************************************)
(* Properties                                                              *)
(***************************************************************************)
Last(q) == q[Len(q)]

\* the durable record of the identity a cycle serves
Durable(c) == users[c.id]

\* a cycle whose response chain started by entering state a
Entered(c, a) == c.phase = "response" /\ c.chain # <<>> /\ c.chain[1] = a

\* the state the chain of a cycle ended in
FinalState(c) == IF c.chain = <<>> THEN c.cur ELSE Last(c.chain)

\* the step budget the loop guard is measured against
StepBudget == MaxChain - 1

\* C1: with onEnter(a) -> b, onEnter(b) -> c, onEnter(c) -> nothing (a, b, c
\* distinct), a completed cycle whose onResponse led into a has invoked onEnter
\* for a, b, c once each, in that order, and has persisted c -- in every runtime.
C1_ChainFollowsPath ==
  \A u \in Updates : \A a \in States, b \in States, cc \in States :
    ( /\ a # b /\ b # cc /\ a # cc
      /\ LookupOnEnter(handlers, a) = EH(b)
      /\ LookupOnEnter(handlers, b) = EH(cc)
      /\ LookupOnEnter(handlers, cc) = EH(None)
      /\ cyc[u].pc = "done"
      /\ Entered(cyc[u], a) )
    => /\ cyc[u].chain = <<a, b, cc>>
       /\ Durable(cyc[u]).currentState = cc

\* C2: with onEnter(a) -> b and onEnter(b) -> a, a chain that entered a stops
\* with a transition-loop error once the step budget is used up: it is never
\* about to make a further onEnter step.
C2_LoopGuard ==
  \A u \in Updates : \A a \in States, b \in States :
    ( /\ a # b
      /\ LookupOnEnter(handlers, a) = EH(b)
      /\ LookupOnEnter(handlers, b) = EH(a)
      /\ Entered(cyc[u], a)
      /\ Len(cyc[u].chain) >= StepBudget )
    => cyc[u].pc = "failed"

C4_DataContinuity ==
  \A u \in Updates :
    (cyc[u].pc \in {"enter1", "enter2", "enter"} /\ cyc[u].phase = "response")
    => \A k \in Keys :
         cyc[u].lastSet[k] # None => cyc[u].ldata[k] = cyc[u].lastSet[k]

C4_Witness ==
  \E u \in Updates : \E k \in Keys :
    /\ cyc[u].pc \in {"enter2", "enter"}
    /\ cyc[u].phase = "response"
    /\ Len(cyc[u].chain) >= 1
    /\ cyc[u].lastSet[k] # None
    /\ cyc[u].lastSet[k] # cyc[u].d0[k]
    /\ cyc[u].ldata[k] = cyc[u].lastSet[k]

\* C5: when a cycle completes without error, the durable record holds the final
\* state of the chain and state data equal to the working copy left by the last
\* handler.
C5_PersistsFinal ==
  \A u \in Updates :
    cyc[u].pc = "done"
    => /\ Durable(cyc[u]).currentState = FinalState(cyc[u])
       /\ JSONparse(Durable(cyc[u]).stateData) = cyc[u].ldata

\* C6: a completed cycle of an existing identity that made no transition and
\* left the state data as loaded has issued no storage write.
C6_NoRedundantWrite ==
  \A u \in Updates :
    ( /\ cyc[u].pc = "done"
      /\ ~cyc[u].isNew
      /\ cyc[u].chain = <<>>
      /\ cyc[u].cur = cyc[u].s0
      /\ cyc[u].ldata = cyc[u].d0 )
    => cyc[u].nwrites = 0

\* C7: when a handler threw, the durable currentState is the one the identity
\* had when the failing step began.
C7_NoPartialTransition ==
  \A u \in Updates :
    cyc[u].pc = "failed" => Durable(cyc[u]).currentState = cyc[u].stepStart

\* C8: an execute call for a state without a handler of the requested kind
\* returns nothing, invokes no handler, and leaves the registry, the context's
\* state data, the durable records and the cycles unchanged.
C8_NoOpDefault ==
  [][ ( /\ lastCall' # lastCall
        /\ \/ lastCall'.op = "onEnter" /\ ~hasOnEnter(handlers, lastCall'.state)
           \/ lastCall'.op = "onResponse" /\ ~hasOnResponse(handlers, lastCall'.state) )
      => /\ lastCall'.ret = None
         /\ lastCall'.handler = NoHandler
         /\ ~lastCall'.threw
         /\ handlers' = handlers
         /\ ctxData' = ctxData
         /\ users' = users
         /\ cyc' = cyc ]_vars

C8_Witness ==
  /\ lastCall.op = "onEnter"
  /\ lastCall.state \notin DOMAIN handlers
  /\ \E s \in DOMAIN handlers : ~hasOnEnter(handlers, s)
  /\ lastCall.handler = NoHandler
  /\ ctxData # EmptyData

\* C9: an execute call invokes the handler of the latest registration for that
\* state and kind, whichever registration path made it; a handler that was
\* replaced is not invoked.
C9_LastWriteWins ==
  /\ lastCall.op = "onEnter"
       => /\ lastCall.handler = lastReg[lastCall.state].onEnter
          /\ (lastRegCall.kind = "onEnter" /\ lastCall.state \in lastRegCall.scope
              /\ lastRegCall.prev[lastCall.state] # lastReg[lastCall.state].onEnter
                => lastCall.handler # lastRegCall.prev[lastCall.state])
  /\ lastCall.op = "onResponse"
       => /\ lastCall.handler = lastReg[lastCall.state].onResponse
          /\ (lastRegCall.kind = "onResponse" /\ lastCall.state \in lastRegCall.scope
              /\ lastRegCall.prev[lastCall.state] # lastReg[lastCall.state].onResponse
                => lastCall.handler # lastRegCall.prev[lastCall.state])

C9_Witness ==
  /\ lastCall.op = "onEnter"
  /\ lastRegCall.kind = "onEnter"
  /\ lastCall.state \in lastRegCall.scope
  /\ lastRegCall.prev[lastCall.state] \notin {NoHandler, lastCall.handler}
  /\ lastCall.handler # NoHandler

\* C10: a registration of one kind leaves the handler of the other kind of
\* every state as it was, and leaves both handlers (and the registration) of
\* every state outside its scope as they were.
C10_IndependentSlots ==
  [][ (lastRegCall' # lastRegCall \/ handlers' # handlers)
      => \A s \in States :
           /\ lastRegCall'.kind = "onEnter"
                => LookupOnResponse(handlers', s) = LookupOnResponse(handlers, s)
           /\ lastRegCall'.kind = "onResponse"
                => LookupOnEnter(handlers', s) = LookupOnEnter(handlers, s)
           /\ s \notin lastRegCall'.scope
                => /\ LookupOnEnter(handlers', s) = LookupOnEnter(handlers, s)
                   /\ LookupOnResponse(handlers', s) = LookupOnResponse(handlers, s)
                   /\ (s \in DOMAIN handlers') = (s \in DOMAIN handlers) ]_vars

C10_Witness ==
  \E s \in States, t \in States :
    /\ s # t
    /\ lastRegCall.kind = "onEnter"
    /\ lastRegCall.scope = {s}
    /\ lastRegCall.prev[s] # NoHandler
    /\ LookupOnEnter(handlers, s) # lastRegCall.prev[s]
    /\ hasOnResponse(handlers, s)
    /\ hasOnEnter(handlers, t) /\ hasOnResponse(handlers, t)

\* C11: a registration for a list of states binds every state of the list to
\* the one handler of the call -- an execute call for any of them invokes it --
\* and leaves the handler of every state outside the list as it was, so that a
\* later registration for one state replaces the handler of that state only.
C11_MultiStateRegistration ==
  /\ [][ (lastRegCall' # lastRegCall \/ handlers' # handlers)
          => LET kind == lastRegCall'.kind
                 first == CHOOSE s \in lastRegCall'.scope : TRUE
                 h == lastReg'[first][kind]
             IN /\ h # NoHandler
                /\ \A s \in lastRegCall'.scope :
                     /\ lastReg'[s][kind] = h
                     /\ kind = "onEnter" => LookupOnEnter(handlers', s) = h
                     /\ kind = "onResponse" => LookupOnResponse(handlers', s) = h
                /\ \A s \in States \ lastRegCall'.scope :
                     /\ LookupOnEnter(handlers', s) = LookupOnEnter(handlers, s)
                     /\ LookupOnResponse(handlers', s) = LookupOnResponse(handlers, s) ]_vars
  /\ [](\A s \in lastRegCall.scope :
          (lastCall.state = s /\ lastCall.op = lastRegCall.kind)
            => lastCall.handler = lastReg[s][lastRegCall.kind])

\* a list registration of two states was followed by a registration for one of
\* them, and an execute call for the other one invoked the handler of the list
C11_Witness ==
  \E s \in States, t \in States :
    /\ s # t
    /\ lastRegCall.kind = "onEnter"
    /\ lastRegCall.scope = {s}
    /\ lastRegCall.prev[s] # NoHandler
    /\ lastRegCall.prev[s] = LookupOnEnter(handlers, t)
    /\ LookupOnEnter(handlers, s) # lastRegCall.prev[s]
    /\ lastCall.op = "onEnter" /\ lastCall.state = t
    /\ lastCall.handler = lastRegCall.prev[s]

\* C12: an execute call for a state with a handler of the requested kind invokes
\* that handler once and returns what the handler returned, unaltered.
C12_ReturnsVerbatim ==
  /\ (lastCall.op = "onEnter" /\ hasOnEnter(handlers, lastCall.state))
       => /\ lastCall.handler = LookupOnEnter(handlers, lastCall.state)
          /\ lastCall.calls = 1
          /\ lastCall.ret = lastCall.result
          /\ ~lastCall.threw => lastCall.ret = EnterRet(lastCall.handler)
  /\ (lastCall.op = "onResponse" /\ hasOnResponse(handlers, lastCall.state))
       => /\ lastCall.handler = LookupOnResponse(handlers, lastCall.state)
          /\ lastCall.calls = 1
          /\ lastCall.ret = lastCall.result

\* an onResponse handler returned the state it was invoked for
C12_Witness ==
  /\ lastCall.op = "onResponse"
  /\ hasOnResponse(handlers, lastCall.state)
  /\ lastCall.result = lastCall.state
  /\ lastCall.ret = lastCall.state

C14_NewUserScenario ==
  \A u \in Updates :
    LET c == cyc[u] IN
    /\ (c.pc = "done" /\ c.isNew) => (c.ichain # <<>> /\ c.ichain[1] = "idle")
    /\ ~c.isNew => c.ichain = <<>>
    /\ ( /\ c.pc = "done" /\ c.phase = "response"
         /\ c.rret # None /\ c.rret # c.r0
         /\ LookupOnEnter(handlers, c.rret) = EH(None) )
       => (c.chain = <<c.rret>> /\ Durable(c).currentState = c.rret)

\* C15: no call of the session API removes a user record or changes its
\* identity, and adapter.delete(key) for a known user leaves that user's record
\* with currentState "idle" and state data {} and every other record as it was.
C15_DeleteIsReset ==
  [][ /\ \A i \in Identities :
           users[i] # NoUser
             => (users'[i] # NoUser /\ users'[i].telegramId = users[i].telegramId)
      /\ (lastCall'.op = "delete" /\ users[lastCall'.key] # NoUser)
           => /\ ~lastCall'.threw
              /\ users' = [users EXCEPT ![lastCall'.key] =
                             [telegramId |-> lastCall'.key, currentState |-> "idle",
                              stateData |-> JSONstringify(EmptyData)]] ]_vars

\* a delete for a user that had moved on, next to another user that stays put
C15_Witness ==
  \E i \in Identities :
    /\ lastCall.op = "delete"
    /\ lastCall.before # NoUser
    /\ lastCall.before.currentState # "idle"
    /\ lastCall.before.stateData # JSONstringify(EmptyData)
    /\ users[lastCall.key].currentState = "idle"
    /\ i # lastCall.key /\ users[i] # NoUser /\ users[i].currentState # "idle"

\* C16: a completed cycle whose onResponse called context.transition(t) for
\* another state t and returned nothing has entered t, has followed the onEnter
\* chain from there, and has persisted the state that chain ended in -- as a
\* cycle whose onResponse returned t does.
C16_TransitionEquivalent ==
  \A u \in Updates :
    LET c == cyc[u] IN
    ( /\ c.pc = "done"
      /\ c.trans # None /\ c.trans # c.r0
      /\ c.rret = None )
    => /\ c.tchain # <<>>
       /\ c.tchain[1] = c.trans
       /\ Durable(c).currentState = Last(c.tchain)

\* C17: every onEnter call of a chain -- the one for a new session, the first
\* one after onResponse and every chained one -- was made with a context whose
\* currentState is the state whose onEnter was called.
C17_ContextStateIsEntered ==
  \A u \in Updates :
    \A i \in 1..Len(cyc[u].chain) : cyc[u].ectx[i] = cyc[u].chain[i]

Overlapped(u, v) ==
  /\ u # v
  /\ cyc[u].id = cyc[v].id
  /\ cyc[u].pc = "done" /\ cyc[v].pc = "done"
  /\ ~cyc[u].late /\ ~cyc[v].late

\* C19: every step belongs to one cycle; it leaves the other cycles and the
\* durable records of all other identities as they are, and a step that loads
\* the session loads it from the record of the cycle's own identity.  So a
\* finished cycle that had its identity to itself leaves the durable record it
\* wrote last (or, if it wrote nothing, the record it loaded).
C19_IdentitiesIndependent ==
  /\ [][ \E u \in Updates :
            /\ \A v \in Updates \ {u} : cyc'[v] = cyc[v]
            /\ \A i \in Identities \ {cyc'[u].id} : users'[i] = users[i]
            /\ (cyc[u].pc \in {"getUser", "getOrCreateSession"} /\ cyc'[u].pc = "onResponse")
                 => /\ cyc'[u].cur = users[cyc[u].id].currentState
                    /\ JSONstringify(cyc'[u].sdata) = users[cyc[u].id].stateData ]_vars
  /\ [](\A u \in Updates :
          ( /\ cyc[u].pc = "done"
            /\ \A v \in Updates \ {u} : cyc[v].id # cyc[u].id )
          => IF cyc[u].nwrites = 0
             THEN /\ Durable(cyc[u]).currentState = cyc[u].s0
                  /\ Durable(cyc[u]).stateData = JSONstringify(cyc[u].d0)
             ELSE /\ Durable(cyc[u]).currentState = cyc[u].wrec.currentState
                  /\ Durable(cyc[u]).stateData = cyc[u].wrec.stateData)

\* cycles of the two identities ran interleaved and left different records
C19_Witness ==
  \E u \in Updates, v \in Updates :
    /\ cyc[u].id # cyc[v].id
    /\ cyc[u].pc = "done" /\ cyc[v].pc = "done"
    /\ ~cyc[u].late /\ ~cyc[v].late
    /\ cyc[u].wtime > 0 /\ cyc[v].wtime > cyc[u].wtime
    /\ cyc[v].nwrites = 2
    /\ Durable(cyc[u]).currentState # Durable(cyc[v]).currentState
    /\ Durable(cyc[u]).stateData # Durable(cyc[v]).stateData
    /\ Durable(cyc[u]).stateData # JSONstringify(EmptyData)

\* C20: when two overlapping cycles of one identity are both finished, the
\* durable record is the one handed to the updateUserState call that completed
\* last: its currentState and its state data, nothing of the other cycle's.
C20_LastWriteWins ==
  \A u \in Updates, v \in Updates :
    (Overlapped(u, v) /\ cyc[u].wtime > cyc[v].wtime)
    => /\ Durable(cyc[u]).currentState = cyc[u].wrec.currentState
       /\ Durable(cyc[u]).stateData = cyc[u].wrec.stateData

\* C21: the durable record of an identity always is the record it started
\* with or the (currentState, stateData) pair of one updateUserState call made
\* for it -- never the currentState of one call next to state data that call
\* did not carry.
C21_StateAndDataTogether ==
  \A i \in Identities :
    LET r == [currentState |-> users[i].currentState, stateData |-> users[i].stateData]
    IN \/ r = WRec("idle", EmptyData)
       \/ \E u \in Updates : cyc[u].id = i /\ r \in cyc[u].wcalls


\* C22: when onResponse returned a state other than the current one, the durable
\* record already names that state at the moment the cycle is about to call the
\* onEnter handler of that state.
C22_PersistThenEnter ==
  \A u \in Updates :
    LET c == cyc[u] IN
    (/\ c.pc \in {"enter1", "enter"}
     /\ c.phase = "response" /\ c.chain = <<>>
     /\ c.rret # None /\ c.rret # c.r0 /\ c.target = c.rret)
    => users[c.id].currentState = c.rret


\* C23: no cycle is failed by a handler invocation whose outbound send failed:
\* the handler's result is taken and the cycle goes on with it.
C23_SendFailureNotFatal ==
  \A u \in Updates : cyc[u].pc = "failed" => ~cyc[u].sendFailed

\* C24: once the transport-layer caller has dealt with a cycle that threw, the
\* error was caught there and one attempt to send the user the failure message
\* was made (delivered or not).
C24_TransportCatches ==
  \A u \in Updates :
    /\ cyc[u].pc # "escaped"
    /\ cyc[u].pc = "caught" => cyc[u].notice \in {"sent", "lost"}


\* C25: the session a cycle loads carries, by value, the state data mapping
\* that the latest write of an earlier cycle of the same identity was handed.
C25_StateDataRoundTrip ==
  \A u \in Updates :
    LET c == cyc[u] IN
    (c.prev /\ ~c.isNew /\ c.pc \in {"getOrCreateSession", "onResponse"})
    => /\ c.sdata = c.pdata
       /\ \A k \in Keys : createHandlerContext(c.sdata)[k] = c.pdata[k]

\* a cycle has loaded a session whose state data an earlier cycle had set
C25_Witness ==
  \E u \in Updates :
    LET c == cyc[u] IN
    /\ c.prev /\ ~c.isNew /\ c.pc = "onResponse"
    /\ \E k \in Keys : c.pdata[k] # None /\ c.sdata[k] = c.pdata[k]


\* C26: in the Grammy runtimes, a cycle that served a /start message ends with
\* the session in "welcome", having invoked welcome's onEnter exactly once.
C26_StartEntersWelcome ==
  \A u \in Updates :
    LET c == cyc[u] IN
    (IsGrammy /\ c.text = "/start" /\ c.pc = "done")
    => /\ c.cur = "welcome"
       /\ Cardinality({i \in 1..Len(c.chain) : c.chain[i] = "welcome"}) = 1


\* C27: a completed cycle of the XState runtime for a known user has made the
\* onEnter calls the core/bot message handler makes for the same registry,
\* session and onResponse result -- those of transitionToState when the result
\* is a state, none otherwise -- and has persisted the state that handler ends in.
C27_RuntimesEquivalent ==
  \A u \in Updates :
    LET c == cyc[u]
        ref == IF Core_shouldTransition(c.rret, c.r0)
               THEN GrammyChain(handlers, c.rret, MaxChain) ELSE <<>>
    IN (IsXState /\ c.pc = "done" /\ ~c.isNew /\ Len(ref) < MaxChain)
       => /\ c.chain = ref
          /\ Durable(c).currentState = (IF ref = <<>> THEN c.r0 ELSE Last(ref))


\* the states reached by following the onEnter results from s, up to the first
\* state whose onEnter returns nothing or the state itself, n states at most
RECURSIVE ReturnPath(_, _)
ReturnPath(s, n) ==
  LET h == LookupOnEnter(handlers, s)
      r == IF h = NoHandler THEN None ELSE EnterRet(h) IN
  IF n = 0 THEN <<>>
  ELSE IF r = None \/ r = s THEN <<s>>
  ELSE <<s>> \o ReturnPath(r, n - 1)

\* the onEnter results followed from s never come back to a state
NoRevisit(s) == Len(ReturnPath(s, Cardinality(States) + 1)) <= Cardinality(States)

\* C28: when the onEnter results followed from the entered state revisit no
\* state, a completed cycle has called onEnter once for each state on that path
\* and has stopped at the first state whose onEnter returns nothing or itself.
C28_ChainStopsAtTerminal ==
  \A u \in Updates :
    LET c == cyc[u] IN
    (c.pc = "done" /\ c.phase = "response" /\ c.chain # <<>> /\ NoRevisit(c.chain[1]))
    => c.chain = ReturnPath(c.chain[1], Cardinality(States) + 1)


\* how often state s occurs in the sequence q
Count(s, q) == Cardinality({i \in 1..Len(q) : q[i] = s})

\* the onEnter of s returns nothing or s itself (no onEnter handler included)
Terminal(s) ==
  LET h == LookupOnEnter(handlers, s) IN
  h = NoHandler \/ EnterRet(h) = None \/ EnterRet(h) = s

\* C29 as stated: in core/bot, a completed cycle whose onResponse returned the
\* state the session was in has invoked that state's onEnter exactly once and
\* has left the session in that state.
C29_ReenterOnce ==
  \A u \in Updates :
    LET c == cyc[u] IN
    (/\ runtime = "grammy_core" /\ c.pc = "done" /\ c.rret # None /\ c.rret = c.r0
     /\ LookupOnEnter(handlers, c.r0) # NoHandler)
    => /\ Count(c.r0, c.ichain \o c.chain) = 1
       /\ c.cur = c.r0

\* C29, amended: in core/bot, when onResponse returned the state the session
\* was in and the onEnter of that state returns nothing or the state itself, the
\* message handler has called executeOnEnter for that state and for no other,
\* once, and the session stays in that state, in memory and once written.
C29_ReenterTerminalOnce ==
  \A u \in Updates :
    LET c == cyc[u] IN
    (/\ runtime = "grammy_core" /\ c.phase = "response" /\ c.pc \in {"write", "done"}
     /\ c.rret # None /\ c.rret = c.r0 /\ Terminal(c.r0))
    => /\ c.chain = <<c.r0>>
       /\ c.cur = c.r0
       /\ (c.pc = "done" => Durable(c).currentState = c.r0)

\* a known user's state with an onEnter handler has been re-entered and written
C29_Witness ==
  \E u \in Updates :
    LET c == cyc[u] IN
    /\ runtime = "grammy_core" /\ c.pc = "done" /\ ~c.isNew
    /\ c.rret # None /\ c.rret = c.r0
    /\ LookupOnEnter(handlers, c.r0) # NoHandler /\ Terminal(c.r0)
    /\ c.chain = <<c.r0>>


\* C30: the cycle of a known user issues at most one write of the session,
\* however long its chain of transitions is; a completed cycle has written
\* nothing but the state its chain ended in.
C30_OneWritePerCycle ==
  \A u \in Updates :
    LET c == cyc[u] IN
    ~c.isNew
    => /\ c.nwrites <= 1
       /\ (c.pc = "done" => \A w \in c.wcalls : w.currentState = FinalState(c))


\* C31: in core/bot, the onResponse of a new identity's first message is
\* invoked for the state the initial onEnter chain ended in: the chain started
\* in "idle", followed the onEnter results to a state whose onEnter returns
\* nothing or itself, and was complete when onResponse was invoked.
C31_FirstMessageAfterInitialChain ==
  \A u \in Updates :
    LET c == cyc[u] IN
    (runtime = "grammy_core" /\ c.isNew /\ c.phase = "response")
    => /\ c.ichain = ReturnPath("idle", MaxChain)
       /\ Terminal(Last(c.ichain))
       /\ c.r0 = Last(c.ichain)

\* the first message of a new identity was answered in a state other than idle
C31_Witness ==
  \E u \in Updates :
    LET c == cyc[u] IN
    /\ runtime = "grammy_core" /\ c.isNew /\ c.phase = "response"
    /\ Len(c.ichain) > 1 /\ c.r0 # "idle" /\ c.pc = "done"


\* C32: of the updates of one identity, at most one is told that the session
\* is new, so at most one cycle runs the initial onEnter chain for it.
C32_OneNewSession ==
  \A i \in Identities :
    Cardinality({u \in Updates : cyc[u].id = i /\ cyc[u].isNew}) <= 1


\* no handler of either kind is registered for state s
Unregistered(s) == s \notin getRegisteredStates(handlers)

\* what the onEnter handler of s returns
EnterResult(s) ==
  LET h == LookupOnEnter(handlers, s) IN IF h = NoHandler THEN None ELSE EnterRet(h)

\* the states the handlers invoked in a cycle have returned
Returned(c) ==
  ({c.rret} \cup {EnterResult(c.chain[i]) : i \in 1..Len(c.chain)}
            \cup {EnterResult(c.ichain[i]) : i \in 1..Len(c.ichain)}) \ {None}

\* C33: a completed cycle in which a handler returned a state X without
\* registered handlers has persisted X as the current state; and a cycle that
\* loaded a session in such a state X invokes nothing, does not fail and leaves
\* the stored currentState and state data as they were.
C33_UnregisteredTargetIsSink ==
  \A u \in Updates :
    LET c == cyc[u] IN
    /\ \A X \in States :
         (Unregistered(X) /\ c.pc = "done" /\ X \in Returned(c))
         => Durable(c).currentState = X
    /\ (c.s0 # None /\ ~c.isNew /\ Unregistered(c.s0))
       => /\ c.pc # "failed"
          /\ c.chain = <<>> /\ c.rret = None
          /\ Durable(c).currentState = c.s0
          /\ JSONparse(Durable(c).stateData) = c.d0


\* C34: in the Grammy runtimes, when onResponse calls context.transition(T),
\* the onEnter of T is invoked on state data that hold what the handler had
\* set before the call; and when the handler itself set nothing and returns
\* nothing, the state data persisted at the end of the cycle are those the
\* transition left in the session, the values set by onEnter(T) included.
C34_DataAcrossTransition ==
  \A u \in Updates :
    LET c == cyc[u] IN
    /\ (IsGrammy /\ c.phase = "transition" /\ c.pc = "enter" /\ c.chain = <<>>)
       => \A k \in Keys : c.pendData[k] # None => c.ldata[k] = c.pendData[k]
    /\ (/\ IsGrammy /\ c.pc = "done" /\ ~c.isNew
        /\ c.trans # None /\ c.rret = None /\ c.pendData = c.d0)
       => JSONparse(Durable(c).stateData) = c.tdata


\* the toState of the latest TRANSITION event in q, or s if there is none
RECURSIVE LatestTarget(_, _)
LatestTarget(q, s) ==
  IF q = <<>> THEN s
  ELSE IF Last(q).type = "TRANSITION" THEN Last(q).toState
  ELSE LatestTarget(SubSeq(q, 1, Len(q) - 1), s)

\* C35: whatever TRANSITION and REENTER events a compactMachine actor was sent,
\* it is in "active" and context.currentState is the toState of the latest
\* TRANSITION, or the input's currentState if none was sent; and a REENTER
\* event leaves the context as it was.
C35_CompactMachine ==
  /\ [](actor.machine = "compact"
        => /\ actor.node = "active"
           /\ actor.context.currentState
                = LatestTarget(actor.sent, actor.input.currentState))
  /\ [][(actor.machine = "compact" /\ actor'.sent = Append(actor.sent, Reenter))
        => actor'.context = actor.context]_vars

\* a REENTER arrived after a TRANSITION that changed the state
C35_Witness ==
  /\ actor.machine = "compact"
  /\ Len(actor.sent) >= 2
  /\ Last(actor.sent) = Reenter
  /\ actor.sent[Len(actor.sent) - 1].type = "TRANSITION"
  /\ actor.context.currentState # actor.input.currentState

\* the states in scope of at least one registration so far
EverInScope == {s \in States : lastReg[s] # EmptyHandlers}

\* C36: after any sequence of registrations getRegisteredStates() is exactly
\* the set of states that were in scope of some onEnter/onResponse
\* registration (the keys of a Map: each once), hasOnEnter(s) and
\* hasOnResponse(s) are true exactly for the states a handler of that kind was
\* registered for, and no registration makes any of the three revert.
C36_RegistryQueries ==
  /\ [](/\ getRegisteredStates(handlers) = EverInScope
        /\ \A s \in States :
             /\ hasOnEnter(handlers, s) <=> lastReg[s].onEnter # NoHandler
             /\ hasOnResponse(handlers, s) <=> lastReg[s].onResponse # NoHandler)
  /\ [][/\ getRegisteredStates(handlers) \subseteq getRegisteredStates(handlers')
        /\ \A s \in States :
             /\ hasOnEnter(handlers, s) => hasOnEnter(handlers', s)
             /\ hasOnResponse(handlers, s) => hasOnResponse(handlers', s)]_vars

\* both registered states are keys, one with an onResponse handler only, after
\* a list registration
C36_Witness ==
  /\ getRegisteredStates(handlers) = {"idle", "menu"}
  /\ hasOnResponse(handlers, "idle") /\ ~hasOnEnter(handlers, "idle")
  /\ hasOnEnter(handlers, "menu")
  /\ Cardinality(lastRegCall.scope) = 2


\* C37: in the legacy botMachine, once the response handler of the processed
\* state has returned a transition target, the machine is in "transitioning"
\* with context.currentState set to that target, or is back in "idle" after
\* the target state's prompt handler ran.
C37_ResponseTargetIsEntered ==
  (actor.machine = "bot" /\ actor.node # "handlingResponse" /\ actor.output # None)
    => \/ actor.node = "transitioning" /\ actor.context.currentState = actor.output
       \/ actor.node = "idle" /\ actor.prompted = <<actor.output>>

\* what the machine does instead: it never rests in "transitioning", runs no
\* prompt and keeps context.currentState at 'idle'
C37_NeverTransitions ==
  actor.machine = "bot"
    => /\ actor.node # "transitioning"
       /\ actor.prompted = <<>>
       /\ actor.context.currentState = "idle"
       /\ actor.context.nextTransition = None

\* the response handler returned a target and the machine is back in idle
C37_Witness ==
  /\ actor.machine = "bot"
  /\ actor.node = "idle"
  /\ actor.output = "menu"


====
